---- MODULE Spec2Model ----
(***************************************************************************)
(* Model of captum/metrics/_utils/batching.py:                             *)
(* _divide_and_aggregate_metrics(inputs, n_samples, metric_func,           *)
(*                               agg_func, max_examples_per_batch).        *)
(*                                                                         *)
(* One call of the function is a sequential process.  pc is the position   *)
(* of the call in the function body; the other variables are the           *)
(* function's parameters and locals, plus the observable effects of the    *)
(* call: the warnings emitted, the log of collaborator invocations, the    *)
(* returned value and the propagated exception.                            *)
(*                                                                         *)
(* An optional int (max_examples_per_batch) is a sequence of length at     *)
(* most one: <<>> is None and <<c>> is the int c.  A tensor of shape [bsz] *)
(* is a sequence of bsz integers.                                          *)
(***************************************************************************)
EXTENDS Integers, Sequences, FiniteSets

\* ---- bounds of the model ----
MaxBsz == 2
MaxSamples == 4
MaxCap == 13

\* the values one entry of a metric tensor can take
MetricVals == {-1, 2}

\* the aggregation functions a caller passes (torch.add is the default)
AggFuncs == {"torch.add", "torch.max"}

VARIABLES
  pc,                      \* position of the call in the function body
  bsz,                     \* inputs[0].size(0)
  n_samples,               \* parameter
  max_examples_per_batch,  \* parameter, None or an int
  agg_func,                \* parameter
  max_inps_per_batch,      \* local: the resolved chunk width
  current_n_steps,         \* local: the progress counter
  metrics_sum,             \* local: the accumulator
  metric,                  \* local: result of the last metric_func call
  warnings,                \* number of warnings.warn calls made
  calls,                   \* log of the metric_func / agg_func invocations
  result,                  \* <<v>> once the call has returned v
  raised                   \* the collaborator whose exception propagated

vars == <<pc, bsz, n_samples, max_examples_per_batch, agg_func,
          max_inps_per_batch, current_n_steps, metrics_sum, metric,
          warnings, calls, result, raised>>

\* ---- Python / torch primitives used by the function ----
None == <<>>

min(a, b) == IF a <= b THEN a ELSE b

max(a, b) == IF a >= b THEN a ELSE b

zeros_uninitialised(n) == [i \in 1..n |-> -1]

\* torch.zeros(bsz)
zeros(n) == [i \in 1..n |-> 0]

torch_add_overwrite(a, b) == b

\* torch.add(a, b), elementwise
torch_add(a, b) == [i \in 1..Len(a) |-> a[i] + b[i]]

\* torch.max(a, b), elementwise
torch_max(a, b) == [i \in 1..Len(a) |-> max(a[i], b[i])]

\* agg_func(acc, m) for the aggregation function named f
ApplyAgg(f, acc, m) == IF f = "torch.add" THEN torch_add(acc, m) ELSE torch_max(acc, m)

\* the tensors of shape [n] metric_func can return
Tensors(n) == [1..n -> MetricVals]

\* ---- the function's expressions ----
ShouldWarnLowerOnly(cap, b, n) ==
  cap # None /\ (cap[1] \div b < 1)

\* lines 37-39: the condition of the warning
ShouldWarn(cap, b, n) ==
  cap # None /\ (cap[1] \div b < 1 \/ cap[1] \div b > n)

ResolveNoUpperClamp(cap, b, n) ==
  IF cap = None THEN n ELSE max(cap[1] \div b, 1)

ResolveNoDivide(cap, b, n) ==
  IF cap = None THEN n ELSE min(max(cap[1], 1), n)

ResolveNoneIsOne(cap, b, n) ==
  IF cap = None THEN 1 ELSE min(max(cap[1] \div b, 1), n)

\* lines 52-56: the value assigned to max_inps_per_batch
Resolve(cap, b, n) ==
  IF cap = None THEN n ELSE min(max(cap[1] \div b, 1), n)

StepByOne(cur, cw) == cur + 1

\* line 62: the tentative advance of current_n_steps
Step(cur, cw) == cur + cw

WidthNoShrink(cur, cw, n) == cw

WidthOvershoot(cur, cw, n) == IF cur <= n THEN cw ELSE cur - n

\* lines 65-67: the argument passed to metric_func
Width(cur, cw, n) == IF cur <= n THEN cw ELSE cw - (cur - n)

ClampMax(cur, n) == max(cur, n)

ClampNone(cur, n) == cur

\* line 70: the clamp of current_n_steps
Clamp(cur, n) == min(cur, n)

\* ---- the call log ----
MetricCall(w, ret, ok) ==
  [fn |-> "metric_func", width |-> w, acc |-> <<>>, arg |-> <<>>, ret |-> ret, ok |-> ok]

AggCall(acc, m, ret, ok) ==
  [fn |-> "agg_func", width |-> 0, acc |-> acc, arg |-> m, ret |-> ret, ok |-> ok]

IsMetric(c) == c.fn = "metric_func"

IsAgg(c) == c.fn = "agg_func"

\* the invocations of metric_func, in order
MetricCalls == SelectSeq(calls, IsMetric)

\* the invocations of agg_func, in order
AggCalls == SelectSeq(calls, IsAgg)

\* the widths passed to metric_func, in order
Widths == [i \in 1..Len(MetricCalls) |-> MetricCalls[i].width]

RECURSIVE SumSeq(_)
SumSeq(s) == IF s = <<>> THEN 0 ELSE s[1] + SumSeq(Tail(s))

\* ceil(a / b) for b >= 1
CeilDiv(a, b) == (a + b - 1) \div b

\* ---- the state after the call is entered ----
Init ==
  /\ pc = "warn"
  /\ bsz \in 1..MaxBsz
  /\ n_samples \in 1..MaxSamples
  /\ max_examples_per_batch \in {None} \cup {<<c>> : c \in 1..MaxCap}
  /\ agg_func \in AggFuncs
  /\ max_inps_per_batch = 0
  /\ current_n_steps = 0
  /\ metrics_sum = <<>>
  /\ metric = <<>>
  /\ warnings = 0
  /\ calls = <<>>
  /\ result = <<>>
  /\ raised = "none"

\* ---- the steps of the call ----

\* lines 37-50: emit the warning when the cap is out of range
Warn ==
  /\ pc = "warn"
  /\ warnings' = IF ShouldWarn(max_examples_per_batch, bsz, n_samples)
                 THEN warnings + 1 ELSE warnings
  /\ pc' = "resolve"
  /\ UNCHANGED <<bsz, n_samples, max_examples_per_batch, agg_func,
                 max_inps_per_batch, current_n_steps, metrics_sum, metric,
                 calls, result, raised>>

\* lines 52-59: resolve the chunk width, initialise counter and accumulator
Setup ==
  /\ pc = "resolve"
  /\ max_inps_per_batch' = Resolve(max_examples_per_batch, bsz, n_samples)
  /\ current_n_steps' = 0
  /\ metrics_sum' = zeros(bsz)
  /\ pc' = "loop"
  /\ UNCHANGED <<bsz, n_samples, max_examples_per_batch, agg_func, metric,
                 warnings, calls, result, raised>>

\* lines 61-62: the loop test succeeds, the counter advances tentatively
Advance ==
  /\ pc = "loop"
  /\ current_n_steps < n_samples
  /\ current_n_steps' = Step(current_n_steps, max_inps_per_batch)
  /\ pc' = "metric"
  /\ UNCHANGED <<bsz, n_samples, max_examples_per_batch, agg_func,
                 max_inps_per_batch, metrics_sum, metric, warnings, calls,
                 result, raised>>

MetricReturnWarns ==
  /\ pc = "metric"
  /\ \E v \in Tensors(bsz) :
       /\ metric' = v
       /\ calls' = Append(calls,
            MetricCall(Width(current_n_steps, max_inps_per_batch, n_samples), v, TRUE))
  /\ warnings' = IF ShouldWarn(max_examples_per_batch, bsz, n_samples)
                 THEN warnings + 1 ELSE warnings
  /\ pc' = "clamp"
  /\ UNCHANGED <<bsz, n_samples, max_examples_per_batch, agg_func,
                 max_inps_per_batch, current_n_steps, metrics_sum,
                 result, raised>>

\* lines 64-68: metric_func is invoked and returns a tensor of shape [bsz]
MetricReturn ==
  /\ pc = "metric"
  /\ \E v \in Tensors(bsz) :
       /\ metric' = v
       /\ calls' = Append(calls,
            MetricCall(Width(current_n_steps, max_inps_per_batch, n_samples), v, TRUE))
  /\ pc' = "clamp"
  /\ UNCHANGED <<bsz, n_samples, max_examples_per_batch, agg_func,
                 max_inps_per_batch, current_n_steps, metrics_sum, warnings,
                 result, raised>>

MetricRaiseSwallowed ==
  /\ pc = "metric"
  /\ calls' = Append(calls,
       MetricCall(Width(current_n_steps, max_inps_per_batch, n_samples), <<>>, FALSE))
  /\ metric' = zeros(bsz)
  /\ pc' = "clamp"
  /\ UNCHANGED <<bsz, n_samples, max_examples_per_batch, agg_func,
                 max_inps_per_batch, current_n_steps, metrics_sum,
                 warnings, result, raised>>

\* lines 64-68: metric_func is invoked and raises; the call unwinds
MetricRaise ==
  /\ pc = "metric"
  /\ calls' = Append(calls,
       MetricCall(Width(current_n_steps, max_inps_per_batch, n_samples), <<>>, FALSE))
  /\ raised' = "metric_func"
  /\ pc' = "failed"
  /\ UNCHANGED <<bsz, n_samples, max_examples_per_batch, agg_func,
                 max_inps_per_batch, current_n_steps, metrics_sum, metric,
                 warnings, result>>

ClampStepsAggAtEnd ==
  /\ pc = "clamp"
  /\ current_n_steps' = Clamp(current_n_steps, n_samples)
  /\ pc' = IF current_n_steps' < n_samples THEN "loop" ELSE "agg"
  /\ UNCHANGED <<bsz, n_samples, max_examples_per_batch, agg_func,
                 max_inps_per_batch, metrics_sum, metric, warnings, calls,
                 result, raised>>

\* line 70: clamp the counter
ClampSteps ==
  /\ pc = "clamp"
  /\ current_n_steps' = Clamp(current_n_steps, n_samples)
  /\ pc' = "agg"
  /\ UNCHANGED <<bsz, n_samples, max_examples_per_batch, agg_func,
                 max_inps_per_batch, metrics_sum, metric, warnings, calls,
                 result, raised>>

\* line 72: agg_func is invoked and its result replaces the accumulator
AggReturn ==
  /\ pc = "agg"
  /\ metrics_sum' = ApplyAgg(agg_func, metrics_sum, metric)
  /\ calls' = Append(calls, AggCall(metrics_sum, metric, metrics_sum', TRUE))
  /\ pc' = "loop"
  /\ UNCHANGED <<bsz, n_samples, max_examples_per_batch, agg_func,
                 max_inps_per_batch, current_n_steps, metric, warnings,
                 result, raised>>

\* line 72: agg_func is invoked and raises; the call unwinds
AggRaise ==
  /\ pc = "agg"
  /\ calls' = Append(calls, AggCall(metrics_sum, metric, <<>>, FALSE))
  /\ raised' = "agg_func"
  /\ pc' = "failed"
  /\ UNCHANGED <<bsz, n_samples, max_examples_per_batch, agg_func,
                 max_inps_per_batch, current_n_steps, metrics_sum, metric,
                 warnings, result>>

\* lines 61, 73: the loop test fails, the accumulator is returned
Return ==
  /\ pc = "loop"
  /\ ~(current_n_steps < n_samples)
  /\ result' = <<metrics_sum>>
  /\ pc' = "done"
  /\ UNCHANGED <<bsz, n_samples, max_examples_per_batch, agg_func,
                 max_inps_per_batch, current_n_steps, metrics_sum, metric,
                 warnings, calls, raised>>

Next ==
  \/ Warn
  \/ Setup
  \/ Advance
  \/ MetricReturn
  \/ MetricRaise
  \/ ClampSteps
  \/ AggReturn
  \/ AggRaise
  \/ Return

Spec == Init /\ [][Next]_vars

\* the interpreter runs the call to its end: a step that is enabled is taken
LiveSpec == Init /\ [][Next]_vars /\ WF_vars(Next)

TypeOK ==
  /\ pc \in {"warn", "resolve", "loop", "metric", "clamp", "agg", "done", "failed"}
  /\ bsz \in 1..MaxBsz
  /\ n_samples \in 1..MaxSamples
  /\ warnings \in 0..1
  /\ raised \in {"none", "metric_func", "agg_func"}
  /\ Len(result) <= 1

\* ---- shorthand used by the properties ----
HasCap == max_examples_per_batch # None

Cap == max_examples_per_batch[1]

\* the chunk width has been resolved
Resolved == pc \notin {"warn", "resolve"}

\* the tensors metric_func returned, in order
Metrics == [i \in 1..Len(MetricCalls) |-> MetricCalls[i].ret]

\* ---- properties ----

\* C1 (coverage): when the call returns, the widths passed to metric_func
\* over all iterations sum to exactly n_samples.
C1_Coverage ==
  pc = "done" => SumSeq(Widths) = n_samples

C1_Witness ==
  /\ pc = "done"
  /\ HasCap
  /\ Len(Widths) >= 2
  /\ Widths[Len(Widths)] < max_inps_per_batch
  /\ SumSeq(Widths) = n_samples

\* C2 (chunk count): a call that completes has invoked metric_func exactly
\* ceil(n_samples / chunk_width) times, and never more than that on the way.
C2_ChunkCount ==
  /\ Resolved => Len(MetricCalls) <= CeilDiv(n_samples, max_inps_per_batch)
  /\ pc = "done" => Len(MetricCalls) = CeilDiv(n_samples, max_inps_per_batch)

C2_Witness ==
  /\ pc = "done"
  /\ n_samples % max_inps_per_batch # 0
  /\ Len(MetricCalls) >= 2
  /\ Len(MetricCalls) = n_samples \div max_inps_per_batch + 1

\* C3 (clamping): the resolved chunk width is n_samples when the cap is
\* absent and cap // bsz clamped into [1, n_samples] when it is present, so
\* it always lies in [1, n_samples].
C3_Clamping ==
  Resolved =>
    /\ ~HasCap => max_inps_per_batch = n_samples
    /\ HasCap /\ Cap \div bsz < 1 => max_inps_per_batch = 1
    /\ HasCap /\ Cap \div bsz > n_samples => max_inps_per_batch = n_samples
    /\ HasCap /\ Cap \div bsz >= 1 /\ Cap \div bsz <= n_samples
         => max_inps_per_batch = Cap \div bsz
    /\ 1 <= max_inps_per_batch
    /\ max_inps_per_batch <= n_samples

C3_Witness ==
  /\ pc = "loop"
  /\ calls = <<>>
  /\ HasCap
  /\ Cap \div bsz > n_samples
  /\ max_inps_per_batch = n_samples

\* C4 (warning trigger): a call emits exactly one warning when the cap is
\* present and cap // bsz is below 1 or above n_samples, and none otherwise;
\* the count stays the same however many iterations run.
C4_WarningCount ==
  /\ pc = "warn" => warnings = 0
  /\ pc # "warn" =>
       warnings = IF HasCap /\ (Cap \div bsz < 1 \/ Cap \div bsz > n_samples)
                  THEN 1 ELSE 0

C4_Witness ==
  /\ pc = "done"
  /\ warnings = 1
  /\ Len(MetricCalls) >= 2

\* C5 (configuration-range warning): with a cap present, a warning is
\* emitted iff cap < bsz or cap > bsz * n_samples.
C5_WarnIffOutsideRange ==
  pc # "warn" /\ HasCap =>
    (warnings = 1 <=> (Cap < bsz \/ Cap > bsz * n_samples))

\* C6 as stated (hard batch-size bound): with a cap present, every
\* metric_func invocation receives a width w with bsz * w <= cap.
C6_HardBound ==
  HasCap => \A i \in 1..Len(Widths) : bsz * Widths[i] <= Cap

\* C6 as amended: with a cap present that is at least bsz, every metric_func
\* invocation receives a width w with bsz * w <= cap.
C6_BoundWhenCapAtLeastBsz ==
  HasCap /\ Cap >= bsz => \A i \in 1..Len(Widths) : bsz * Widths[i] <= Cap

C6_Witness ==
  /\ pc = "done"
  /\ HasCap
  /\ Cap >= bsz
  /\ bsz >= 2
  /\ Len(Widths) >= 2
  /\ bsz * Widths[1] = Cap

\* C7 (no-cap shortcut): when max_examples_per_batch is None the loop runs
\* one iteration, invoking metric_func once with width n_samples.
C7_NoCapShortcut ==
  ~HasCap =>
    /\ Len(MetricCalls) <= 1
    /\ \A i \in 1..Len(Widths) : Widths[i] = n_samples
    /\ pc = "done" => Len(MetricCalls) = 1

C7_Witness ==
  /\ pc = "done"
  /\ ~HasCap
  /\ n_samples >= 2
  /\ Widths = <<n_samples>>

\* C8 (aggregation with torch.add): when every metric_func invocation
\* returned the same tensor V, the returned value is V multiplied elementwise
\* by ceil(n_samples / chunk_width).
C8_ConstantMetricSum ==
  (/\ pc = "done"
   /\ agg_func = "torch.add"
   /\ \A i \in 1..Len(Metrics) : Metrics[i] = Metrics[1])
  => result = << [j \in 1..bsz |->
                   Metrics[1][j] * CeilDiv(n_samples, max_inps_per_batch)] >>

C8_Witness ==
  /\ pc = "done"
  /\ agg_func = "torch.add"
  /\ Len(Metrics) >= 3
  /\ \A i \in 1..Len(Metrics) : Metrics[i] = Metrics[1]
  /\ result = << [j \in 1..bsz |-> Metrics[1][j] * Len(Metrics)] >>

\* C9 (termination): unless a collaborator raises, the call reaches its
\* return; when it has returned, current_n_steps equals n_samples, the
\* accumulator is the returned value and no exception was raised.
C9_Termination ==
  /\ <>(pc = "done" \/ pc = "failed")
  /\ [](pc = "done" =>
          /\ current_n_steps = n_samples
          /\ result = <<metrics_sum>>
          /\ raised = "none")
  /\ [](pc = "failed" => raised \in {"metric_func", "agg_func"})

C9_Witness ==
  /\ pc = "done"
  /\ HasCap
  /\ Cap < bsz
  /\ n_samples >= 3
  /\ current_n_steps = n_samples
  /\ result = <<metrics_sum>>

\* C10 (truncation of the final chunk): every width passed to metric_func is
\* at least 1 and at most the number of samples not yet passed; every
\* invocation but the last receives chunk_width, and the last of a call that
\* returns receives n_samples - (k - 1) * chunk_width, k the iteration count.
C10_Truncation ==
  /\ \A i \in 1..Len(Widths) :
       /\ 1 <= Widths[i]
       /\ Widths[i] <= n_samples - SumSeq(SubSeq(Widths, 1, i - 1))
       /\ i < Len(Widths) => Widths[i] = max_inps_per_batch
  /\ pc = "done" =>
       Widths[Len(Widths)] = n_samples - (Len(Widths) - 1) * max_inps_per_batch

C10_Witness ==
  /\ pc = "done"
  /\ max_inps_per_batch = 3
  /\ Len(Widths) = 2
  /\ Widths[1] = 3
  /\ Widths[2] = n_samples - 3
  /\ Widths[2] < 3

\* C11 as stated (progress counter): in every state current_n_steps lies in
\* [0, n_samples], and no step decreases it.
C11_CounterInRangeMonotone ==
  /\ [](current_n_steps >= 0 /\ current_n_steps <= n_samples)
  /\ [][current_n_steps' >= current_n_steps]_vars

\* the call is between the tentative advance (line 62) and the clamp
\* (line 70), or was ended there by metric_func raising
Unclamped == pc \in {"metric", "clamp"} \/ raised = "metric_func"

\* C11 as amended: current_n_steps lies in [0, n_samples] at the loop test,
\* after the clamp and at return, and in [1, n_samples + chunk_width - 1]
\* between the tentative advance and the clamp (where it stays if
\* metric_func raises); only the clamp decreases it, and the clamp lowers it
\* to n_samples and no further.
C11_CounterRangeExceptOvershoot ==
  /\ [](/\ current_n_steps >= 0
        /\ ~Unclamped => current_n_steps <= n_samples
        /\ Unclamped =>
             /\ current_n_steps >= 1
             /\ current_n_steps <= n_samples + max_inps_per_batch - 1)
  /\ [][/\ pc # "clamp" => current_n_steps' >= current_n_steps
        /\ pc = "clamp" /\ current_n_steps' < current_n_steps
             => current_n_steps' = n_samples]_vars

C11_Witness ==
  /\ pc = "clamp"
  /\ current_n_steps > n_samples
  /\ current_n_steps = n_samples + max_inps_per_batch - 1
  /\ Len(MetricCalls) >= 2

\* C12 (failure propagation): an invocation that raises is the last one of
\* the call, which then is failed with that collaborator's exception, takes
\* no further step and returns nothing; a call that has not failed ends only
\* by returning, with current_n_steps = n_samples.
C12_FailurePropagation ==
  /\ [](/\ \A i \in 1..Len(calls) :
             ~calls[i].ok => i = Len(calls) /\ pc = "failed"
        /\ pc = "failed" =>
             /\ calls # <<>>
             /\ ~calls[Len(calls)].ok
             /\ raised = calls[Len(calls)].fn
             /\ result = <<>>
        /\ raised # "none" => pc = "failed"
        /\ pc = "done" =>
             /\ raised = "none"
             /\ current_n_steps = n_samples
        /\ pc \notin {"done", "failed"} => ENABLED Next)
  /\ [][pc \notin {"done", "failed"}]_vars

C12_Witness ==
  /\ pc = "failed"
  /\ raised = "metric_func"
  /\ Len(MetricCalls) = 2
  /\ Len(AggCalls) = 1
  /\ result = <<>>

\* C13 (sequential ordering): the invocations alternate metric_func,
\* agg_func, ..., starting with metric_func; each agg_func invocation receives
\* the result of the metric_func invocation just before it; at most one
\* metric result is un-aggregated, and at return the two counts are equal.
C13_Alternation ==
  /\ \A i \in 1..Len(calls) :
       /\ i % 2 = 1 => calls[i].fn = "metric_func"
       /\ i % 2 = 0 =>
            /\ calls[i].fn = "agg_func"
            /\ calls[i - 1].ok
            /\ calls[i].arg = calls[i - 1].ret
  /\ Len(MetricCalls) - Len(AggCalls) \in {0, 1}
  /\ pc = "done" => Len(MetricCalls) = Len(AggCalls)

C13_Witness ==
  /\ pc = "done"
  /\ Len(calls) >= 6
  /\ Len(MetricCalls) = Len(AggCalls)
  /\ calls[3].ret # calls[1].ret
  /\ calls[4].arg = calls[3].ret

\* C14 as stated (clamp is a no-op): the clamp step leaves current_n_steps
\* unchanged.
C14_ClampNoOp ==
  [][pc = "clamp" => current_n_steps' = current_n_steps]_vars

\* C14 as amended: the clamp step leaves current_n_steps unchanged when the
\* tentative value is at most n_samples (the iteration passed the full chunk
\* width); in a truncated final iteration it lowers current_n_steps to
\* n_samples, by chunk_width minus the width passed.
C14_ClampNoOpUnlessTruncated ==
  [][pc = "clamp" =>
       /\ current_n_steps <= n_samples => current_n_steps' = current_n_steps
       /\ Widths[Len(Widths)] = max_inps_per_batch
            => current_n_steps' = current_n_steps
       /\ Widths[Len(Widths)] < max_inps_per_batch =>
            /\ current_n_steps' = n_samples
            /\ current_n_steps - current_n_steps'
                 = max_inps_per_batch - Widths[Len(Widths)]
            /\ current_n_steps' < current_n_steps]_vars

C14_Witness ==
  /\ pc = "agg"
  /\ current_n_steps = n_samples
  /\ Len(Widths) >= 2
  /\ Widths[Len(Widths)] < max_inps_per_batch
  /\ Len(Widths) * max_inps_per_batch > n_samples

RECURSIVE FoldLeft(_, _, _)
FoldLeft(f, acc, ms) ==
  IF ms = <<>> THEN acc ELSE FoldLeft(f, ApplyAgg(f, acc, ms[1]), Tail(ms))

\* C15 (left fold from zero): the returned value is agg_func folded from the
\* left over the metric_func results in invocation order, starting from the
\* all-zero tensor of shape [bsz]; with elementwise max no entry of the
\* result is below 0.
C15_LeftFoldFromZero ==
  pc = "done" =>
    /\ result = << FoldLeft(agg_func, [j \in 1..bsz |-> 0], Metrics) >>
    /\ agg_func = "torch.max" => \A j \in 1..bsz : result[1][j] >= 0

C15_Witness ==
  /\ pc = "done"
  /\ agg_func = "torch.max"
  /\ Len(Metrics) >= 2
  /\ \A i \in 1..Len(Metrics) : Metrics[i][1] = -1
  /\ result[1][1] = 0

\* C16 (warning precedes all work): a warning is emitted only while no
\* collaborator has been invoked, and once a collaborator has been invoked
\* (also when that first metric_func invocation raised) the warning of an
\* out-of-range cap has already been emitted.
C16_WarningFirst ==
  /\ [][warnings' # warnings => calls = <<>> /\ calls' = <<>>]_vars
  /\ [](calls # <<>> /\ HasCap /\ (Cap \div bsz < 1 \/ Cap \div bsz > n_samples)
          => warnings = 1)

C16_Witness ==
  /\ pc = "failed"
  /\ warnings = 1
  /\ Len(calls) = 1
  /\ raised = "metric_func"

====
